---- MODULE Spec2Model ----
(***************************************************************************)
(* State-machine model of CalendarComponent                                *)
(* (src/framework/ui/calendar/calendar.component.tsx).                     *)
(*                                                                         *)
(* A date is a record [year, month, date] with month 0-based (0..11) and   *)
(* date 1-based, as the DateService getters return them.  Dates are        *)
(* compared at day granularity.  The collaborators that live in other      *)
(* files (CalendarViewModes, NativeDateService, MonthModelService, the     *)
(* range/batch helpers, CalendarPicker and CalendarPager) are modelled by  *)
(* what they do for the calls this component makes.                        *)
(***************************************************************************)
EXTENDS Integers, Sequences, FiniteSets

\* ------------------------------------------------------------------------
\* Program constants
\* ------------------------------------------------------------------------
MONTHS_IN_COLUMN == 4
YEARS_IN_COLUMN == 4
YEARS_IN_VIEW == 12
MONTHS_IN_YEAR == 12

\* ------------------------------------------------------------------------
\* Bounds of the model
\* ------------------------------------------------------------------------
\* The min/max year spans explored are 0, 1 and, for k in 1..MaxYearPages,
\* the spans 12k and 12k + 1 (an exact multiple of the window and not).
MaxYearPages == 1
\* Number of distinct "today" dates tried (taken from the list TodayList).
NumTodays == 2

\* ------------------------------------------------------------------------
\* CalendarViewModes (type.ts)
\* ------------------------------------------------------------------------
DATE == "DATE"
MONTH == "MONTH"
YEAR == "YEAR"
ViewModes == {DATE, MONTH, YEAR}

\* "Drill-down": Year -> Month -> Day -> Day.
pickNext(mode) ==
  CASE mode = YEAR -> MONTH
    [] mode = MONTH -> DATE
    [] mode = DATE -> DATE

\* "Cycle", used by the header title: Day -> Month -> Year -> Day.
navigationNext(mode) ==
  CASE mode = DATE -> MONTH
    [] mode = MONTH -> YEAR
    [] mode = YEAR -> DATE

\* ------------------------------------------------------------------------
\* NativeDateService / DateService
\* ------------------------------------------------------------------------
\* An absent prop (undefined).
Undefined == [year |-> 0, month |-> 0, date |-> 0]

isLeapYear(y) == (y % 4 = 0 /\ y % 100 # 0) \/ y % 400 = 0

getNumberOfDaysInMonth(y, m) ==
  IF m = 1 THEN (IF isLeapYear(y) THEN 29 ELSE 28)
  ELSE IF m \in {3, 5, 8, 10} THEN 30 ELSE 31

\* new Date(year, month, date): a month past December rolls into the next
\* year and a day past the end of the month rolls into the next month.
RECURSIVE createDate(_, _, _)
createDate(y, m, d) ==
  IF m > 11 THEN createDate(y + 1, m - 12, d)
  ELSE IF d > getNumberOfDaysInMonth(y, m)
       THEN createDate(y, m + 1, d - getNumberOfDaysInMonth(y, m))
       ELSE [year |-> y, month |-> m, date |-> d]

getYear(date) == date.year
getMonth(date) == date.month
getDate(date) == date.date

getMonthStart(date) == createDate(getYear(date), getMonth(date), 1)
getYearStart(date) == createDate(getYear(date), 0, 1)
getYearEnd(date) == createDate(getYear(date), 11, 31)

\* addMonth clamps the day to the length of the target month.
addMonth(date, num) ==
  LET month == createDate(getYear(date), getMonth(date) + num, 1)
      last == getNumberOfDaysInMonth(getYear(month), getMonth(month))
  IN [month EXCEPT !.date = IF getDate(date) < last THEN getDate(date) ELSE last]

addYear(date, num) == createDate(getYear(date) + num, getMonth(date), getDate(date))

\* Sign of the difference date1 - date2.
compareDates(date1, date2) ==
  LET a == <<date1.year, date1.month, date1.date>>
      b == <<date2.year, date2.month, date2.date>>
      i == IF a[1] # b[1] THEN 1 ELSE IF a[2] # b[2] THEN 2 ELSE 3
  IN IF a[i] < b[i] THEN -1 ELSE IF a[i] > b[i] THEN 1 ELSE 0

isBetweenIncludingSafe(date, start, end) ==
  /\ date # Undefined /\ start # Undefined /\ end # Undefined
  /\ compareDates(date, start) >= 0
  /\ compareDates(date, end) <= 0

\* ------------------------------------------------------------------------
\* helpers: range and batch
\* ------------------------------------------------------------------------
\* for (i = 0; i < bound; i++) push(producer(i)): the indices the producer
\* is called with, the bound given as the fraction num/den (the year pager
\* passes a non-integer bound).  The caller applies its producer to them.
rangeQ(num, den) ==
  LET count == IF num <= 0 THEN 0 ELSE ((num - 1) \div den) + 1
  IN [i \in 1..count |-> i - 1]

range(bound) == rangeQ(bound, 1)

\* Item with 0-based index k goes to row floor(k / batchSize).
batch(target, batchSize) ==
  LET n == Len(target)
      rows == IF n = 0 THEN 0 ELSE ((n - 1) \div batchSize) + 1
  IN [r \in 1..rows |->
        SubSeq(target, (r - 1) * batchSize + 1,
               IF r * batchSize < n THEN r * batchSize ELSE n)]

RECURSIVE flatten(_)
flatten(grid) ==
  IF grid = <<>> THEN <<>> ELSE Head(grid) \o flatten(Tail(grid))

Range(seq) == {seq[i] : i \in 1..Len(seq)}

\* ------------------------------------------------------------------------
\* State
\* ------------------------------------------------------------------------
VARIABLES
  props,        \* [min, max, filter, onSelect]: the configuration properties
  today,        \* what dateService.today() returns
  viewMode,     \* state.viewMode
  visibleDate,  \* state.visibleDate
  lastOp,       \* the user interaction handled last
  pressed,      \* the cell pressed / page index reported by that interaction
  emitted,      \* the dates props.onSelect was called with during it
  threw         \* whether its handler raised an error

vars == <<props, today, viewMode, visibleDate, lastOp, pressed, emitted, threw>>

Date(y, m, d) == [year |-> y, month |-> m, date |-> d]

\* ------------------------------------------------------------------------
\* Configurations explored
\* ------------------------------------------------------------------------
TodayList ==
  << Date(2020, 0, 31), Date(2020, 1, 29), Date(2021, 4, 30), Date(2023, 11, 31) >>
Todays == {TodayList[i] : i \in 1..NumTodays}

ShortSpans == {0, 1}
LongSpans == UNION {{YEARS_IN_VIEW * k, YEARS_IN_VIEW * k + 1} : k \in 1..MaxYearPages}

NoFilter == "none"
ParityFilter == "parity"
Filters == {NoFilter, ParityFilter}

\* props.filter(date) for the filters explored.
applyFilter(f, date) == (getMonth(date) + getDate(date)) % 2 = 1

\* The max props tried for a given today: absent, or a day early next year.
MaxChoices(t) == {Undefined, Date(getYear(t) + 1, 1, 10)}

effectiveMaxYear(t, mx) == IF mx = Undefined THEN getYear(t) ELSE getYear(mx)

\* The min props tried: absent, or a mid-year day `span` years before max.
MinChoices(t, mx, spans) ==
  {Date(effectiveMaxYear(t, mx) - s, 5, 15) : s \in spans}

Config(t, mn, mx, f, cb) ==
  [t |-> t, p |-> [min |-> mn, max |-> mx, filter |-> f, onSelect |-> cb]]

\* min <= max, with the defaults the component uses for an absent prop.
Ordered(t, mn, mx) ==
  compareDates(IF mn = Undefined THEN getYearStart(t) ELSE mn,
               IF mx = Undefined THEN getYearEnd(t) ELSE mx) <= 0

\* Short spans: every today with every choice of bounds and filter, the
\* selection callback supplied; and once per today without the callback.
ShortConfigs ==
  UNION {UNION {
    {Config(t, c[1], mx, c[2], TRUE) :
       c \in {x \in ({Undefined} \cup MinChoices(t, mx, ShortSpans)) \X Filters :
                Ordered(t, x[1], mx)}}
    : mx \in MaxChoices(t)} : t \in Todays}
  \cup {Config(t, Undefined, Undefined, NoFilter, FALSE) : t \in Todays}

\* Long spans (several year pages): the first today, no max, no filter.
LongConfigs ==
  {Config(TodayList[1], mn, Undefined, NoFilter, TRUE) :
     mn \in MinChoices(TodayList[1], Undefined, LongSpans)}

Configs == ShortConfigs \cup LongConfigs

\* ------------------------------------------------------------------------
\* CalendarComponent: getters and pure methods
\* ------------------------------------------------------------------------
min == IF props.min # Undefined THEN props.min ELSE getYearStart(today)
max == IF props.max # Undefined THEN props.max ELSE getYearEnd(today)

\* Variant: the filter's verdict taken without negation.
isDateFitsFilter_notNegated(date) ==
  (props.filter # NoFilter /\ applyFilter(props.filter, date))

\* True when a filter is supplied and rejects the date.
isDateFitsFilter(date) ==
  (props.filter # NoFilter /\ ~applyFilter(props.filter, date))

isDateFitsBounds(date) == isBetweenIncludingSafe(date, min, max)

\* Variant: the bounds are not consulted for day cells.
isDayDisabled_filterOnly(date) == isDateFitsFilter(date)

isDayDisabled(date) == ~isDateFitsBounds(date) \/ isDateFitsFilter(date)
isMonthDisabled(date) == ~isDateFitsBounds(date) \/ isDateFitsFilter(date)
isYearDisabled(date) == ~isDateFitsBounds(date) \/ isDateFitsFilter(date)

Abs(n) == IF n < 0 THEN -n ELSE n

visibleDayPickerIndex == getMonth(visibleDate)

visibleYearPickerIndex ==
  LET numberOfYears == getYear(visibleDate) - getYear(min)
  IN numberOfYears \div YEARS_IN_VIEW

\* Variant: only the neighbours count, not the current page itself.
isDayPickerInViewPort_adjacentOnly(index) ==
  LET visibleIndex == getMonth(visibleDate)
  IN Abs(index - visibleIndex) = 1

isDayPickerInViewPort(index) ==
  LET visibleIndex == getMonth(visibleDate)
  IN index = visibleIndex \/ Abs(index - visibleIndex) = 1

isYearPickerInViewPort(index) ==
  LET numberOfYears == getYear(visibleDate) - getYear(min)
      visibleIndex == numberOfYears \div YEARS_IN_VIEW
  IN index = visibleIndex \/ Abs(index - visibleIndex) = 1

\* MonthModelService.createDaysGrid with boundingMonth = false (the default):
\* the cells that hold a date are the days of the month.
createDayPickerData(date) ==
  LET monthStart == getMonthStart(date)
  IN [i \in 1..getNumberOfDaysInMonth(getYear(monthStart), getMonth(monthStart)) |->
        createDate(getYear(monthStart), getMonth(monthStart), i)]

\* Variant: the months are counted from the date, not from its year start.
createMonthPickerData_fromDate(date) ==
  LET indices == range(MONTHS_IN_YEAR)
      monthRange == [i \in DOMAIN indices |-> addMonth(date, indices[i])]
  IN batch(monthRange, MONTHS_IN_COLUMN)

createMonthPickerData(date) ==
  LET yearStart == getYearStart(date)
      indices == range(MONTHS_IN_YEAR)
      monthRange == [i \in DOMAIN indices |-> addMonth(yearStart, indices[i])]
  IN batch(monthRange, MONTHS_IN_COLUMN)

createYearPickerData(date) ==
  LET yearStart == getYearStart(date)
      indices == range(YEARS_IN_VIEW)
      yearRange == [i \in DOMAIN indices |-> addYear(yearStart, indices[i])]
  IN batch(yearRange, YEARS_IN_COLUMN)

createDayPickerPagerData(date) ==
  LET yearStart == getYearStart(date)
      indices == range(MONTHS_IN_YEAR)
  IN [i \in DOMAIN indices |-> addMonth(yearStart, indices[i])]

\* numberOfYearPages = Math.max(numberOfYears / YEARS_IN_VIEW, 1), kept as
\* the fraction Max(numberOfYears, YEARS_IN_VIEW) / YEARS_IN_VIEW.
createYearPickerPagerData ==
  LET numberOfYears == getYear(max) - getYear(min)
      pagesNum == IF numberOfYears > YEARS_IN_VIEW THEN numberOfYears ELSE YEARS_IN_VIEW
      indices == rangeQ(pagesNum, YEARS_IN_VIEW)
  IN [i \in DOMAIN indices |-> addYear(min, indices[i] * YEARS_IN_VIEW)]

\* ------------------------------------------------------------------------
\* CalendarComponent: event handlers
\* ------------------------------------------------------------------------
NoIndex == 0 - 1
Cell(date) == [date |-> date, index |-> NoIndex]
Page(index) == [date |-> Undefined, index |-> index]
Nothing == [date |-> Undefined, index |-> NoIndex]

onDateSelect(date) ==
  /\ emitted' = IF props.onSelect THEN <<date>> ELSE <<>>
  /\ threw' = FALSE
  /\ UNCHANGED <<viewMode, visibleDate>>

\* Variant: the month selection does not drill down.
onMonthSelect_keepsViewMode(date) ==
  LET nextVisibleDate ==
        createDate(getYear(visibleDate), getMonth(date), getDate(visibleDate))
  IN /\ visibleDate' = nextVisibleDate
     /\ emitted' = <<>>
     /\ threw' = FALSE
     /\ UNCHANGED viewMode

onMonthSelect(date) ==
  LET nextVisibleDate ==
        createDate(getYear(visibleDate), getMonth(date), getDate(visibleDate))
  IN /\ viewMode' = pickNext(viewMode)
     /\ visibleDate' = nextVisibleDate
     /\ emitted' = <<>>
     /\ threw' = FALSE

onYearSelect(date) ==
  LET nextVisibleDate ==
        createDate(getYear(date), getMonth(visibleDate), getDate(visibleDate))
  IN /\ viewMode' = pickNext(viewMode)
     /\ visibleDate' = nextVisibleDate
     /\ emitted' = <<>>
     /\ threw' = FALSE

onTodayPress ==
  /\ viewMode' = DATE
  /\ visibleDate' = today
  /\ emitted' = <<>>
  /\ threw' = FALSE

\* Variant: the title press uses the drill-down transition.
onPickerNavigationPress_pickNext ==
  /\ viewMode' = pickNext(viewMode)
  /\ emitted' = <<>>
  /\ threw' = FALSE
  /\ UNCHANGED visibleDate

onPickerNavigationPress ==
  /\ viewMode' = navigationNext(viewMode)
  /\ emitted' = <<>>
  /\ threw' = FALSE
  /\ UNCHANGED visibleDate

\* Variant: the page index is added to the visible date itself.
onDatePickerPagerSelect_fromVisibleDate(index) ==
  /\ visibleDate' = addMonth(visibleDate, index)
  /\ emitted' = <<>>
  /\ threw' = FALSE
  /\ UNCHANGED viewMode

onDatePickerPagerSelect(index) ==
  LET yearStart == getYearStart(visibleDate)
  IN /\ visibleDate' = addMonth(yearStart, index)
     /\ emitted' = <<>>
     /\ threw' = FALSE
     /\ UNCHANGED viewMode

\* Reads this.props.min, not the min getter: with the prop absent
\* getYearStart(undefined) raises a TypeError before setState is reached.
onYearPickerPagerSelect(index) ==
  IF props.min = Undefined
  THEN /\ threw' = TRUE
       /\ emitted' = <<>>
       /\ UNCHANGED <<viewMode, visibleDate>>
  ELSE LET yearStart == getYearStart(props.min)
       IN /\ visibleDate' = addYear(yearStart, index * YEARS_IN_VIEW)
          /\ emitted' = <<>>
          /\ threw' = FALSE
          /\ UNCHANGED viewMode

\* A press on a disabled picker cell is swallowed by the cell.
ignoredPress ==
  /\ emitted' = <<>>
  /\ threw' = FALSE
  /\ UNCHANGED <<viewMode, visibleDate>>

\* ------------------------------------------------------------------------
\* What is on screen (render)
\* ------------------------------------------------------------------------
\* Day view: the pager page selected by visibleDayPickerIndex.
renderedDayCells ==
  LET pages == createDayPickerPagerData(visibleDate)
  IN Range(createDayPickerData(pages[visibleDayPickerIndex + 1]))

renderedMonthCells == Range(flatten(createMonthPickerData(visibleDate)))

\* Year view: the page selected by visibleYearPickerIndex; when that index
\* names no page, any page of the pager may be the one on screen.
renderedYearPages ==
  LET pages == createYearPickerPagerData
  IN IF visibleYearPickerIndex \in 0..(Len(pages) - 1)
     THEN {pages[visibleYearPickerIndex + 1]}
     ELSE Range(pages)

renderedYearCells ==
  UNION {Range(flatten(createYearPickerData(page))) : page \in renderedYearPages}

\* ------------------------------------------------------------------------
\* User interactions
\* ------------------------------------------------------------------------
PressDayCell ==
  /\ viewMode = DATE
  /\ \E cell \in renderedDayCells :
       /\ IF isDayDisabled(cell) THEN ignoredPress ELSE onDateSelect(cell)
       /\ lastOp' = "dayCell"
       /\ pressed' = Cell(cell)
  /\ UNCHANGED <<props, today>>

PressMonthCell ==
  /\ viewMode = MONTH
  /\ \E cell \in renderedMonthCells :
       /\ IF isMonthDisabled(cell) THEN ignoredPress ELSE onMonthSelect(cell)
       /\ lastOp' = "monthCell"
       /\ pressed' = Cell(cell)
  /\ UNCHANGED <<props, today>>

PressYearCell ==
  /\ viewMode = YEAR
  /\ \E cell \in renderedYearCells :
       /\ IF isYearDisabled(cell) THEN ignoredPress ELSE onYearSelect(cell)
       /\ lastOp' = "yearCell"
       /\ pressed' = Cell(cell)
  /\ UNCHANGED <<props, today>>

PressToday ==
  /\ onTodayPress
  /\ lastOp' = "today"
  /\ pressed' = Nothing
  /\ UNCHANGED <<props, today>>

PressTitle ==
  /\ onPickerNavigationPress
  /\ lastOp' = "title"
  /\ pressed' = Nothing
  /\ UNCHANGED <<props, today>>

SelectDayPage ==
  /\ viewMode = DATE
  /\ \E index \in 0..(Len(createDayPickerPagerData(visibleDate)) - 1) :
       /\ onDatePickerPagerSelect(index)
       /\ pressed' = Page(index)
  /\ lastOp' = "dayPage"
  /\ UNCHANGED <<props, today>>

SelectYearPage ==
  /\ viewMode = YEAR
  /\ \E index \in 0..(Len(createYearPickerPagerData) - 1) :
       /\ onYearPickerPagerSelect(index)
       /\ pressed' = Page(index)
  /\ lastOp' = "yearPage"
  /\ UNCHANGED <<props, today>>

Init ==
  /\ \E c \in Configs : props = c.p /\ today = c.t
  /\ viewMode \in ViewModes
  /\ visibleDate = getMonthStart(today)
  /\ lastOp = "init"
  /\ pressed = Nothing
  /\ emitted = <<>>
  /\ threw = FALSE

Next ==
  \/ PressDayCell
  \/ PressMonthCell
  \/ PressYearCell
  \/ PressToday
  \/ PressTitle
  \/ SelectDayPage
  \/ SelectYearPage

Spec == Init /\ [][Next]_vars

TypeOK ==
  /\ viewMode \in ViewModes
  /\ getMonth(visibleDate) \in 0..11
  /\ getDate(visibleDate) \in 1..getNumberOfDaysInMonth(getYear(visibleDate), getMonth(visibleDate))
  /\ Len(emitted) <= 1

\* ------------------------------------------------------------------------
\* Properties
\* ------------------------------------------------------------------------
CellOps == {"dayCell", "monthCell", "yearCell"}

\* The press handled last hit a cell that was enabled.
acceptedPress(op) ==
  /\ lastOp = op
  /\ isBetweenIncludingSafe(pressed.date, min, max)
  /\ ~isDateFitsFilter(pressed.date)

\* C1: drilling down from Year view reaches Month view on a year selection
\* and Day view on a month selection, and in Day view no cell selection moves
\* the view mode away from Day.
C1_DrillDownSaturatesAtDay ==
  [][ /\ (viewMode = YEAR /\ acceptedPress("yearCell")') => viewMode' = MONTH
      /\ (viewMode = MONTH /\ acceptedPress("monthCell")') => viewMode' = DATE
      /\ (viewMode = DATE /\ lastOp' \in CellOps) => viewMode' = DATE ]_vars

\* A month cell was selected and the calendar now shows the day view.
C1_Witness == acceptedPress("monthCell") /\ viewMode = DATE

\* C2: in every reachable state the visible date lies within [min, max].
C2_VisibleDateInBounds ==
  /\ compareDates(visibleDate, min) >= 0
  /\ compareDates(visibleDate, max) <= 0

\* The date lies in [min, max] and no supplied filter rejects it.
selectable(date) ==
  /\ compareDates(date, min) >= 0
  /\ compareDates(date, max) <= 0
  /\ (props.filter # NoFilter => applyFilter(props.filter, date))

C3_Emission ==
  /\ emitted # <<>> =>
       /\ lastOp = "dayCell"
       /\ emitted = <<pressed.date>>
       /\ selectable(pressed.date)
  /\ (lastOp = "dayCell" /\ selectable(pressed.date) /\ props.onSelect) =>
       emitted = <<pressed.date>>

\* C3: onSelect is invoked only by a press on an enabled day cell, exactly
\* once and with that cell's date, never with a date out of [min, max] or
\* rejected by the filter, and never by any other interaction; a press on a
\* disabled cell changes neither the view mode nor the visible date.
C3_SelectOnlyFromEnabledDayCell ==
  /\ []C3_Emission
  /\ [][ (lastOp' \in CellOps /\ ~selectable(pressed.date)') =>
           UNCHANGED <<viewMode, visibleDate>> ]_vars

\* An enabled day cell was pressed and onSelect received its date.
C3_Witness ==
  /\ lastOp = "dayCell"
  /\ selectable(pressed.date)
  /\ emitted = <<pressed.date>>

\* The dates the disabling predicates are evaluated on.
CheckedDates ==
  renderedDayCells \cup renderedMonthCells \cup renderedYearCells \cup {min, max}

\* C4: a day, month or year cell is disabled exactly when its date is out of
\* [min, max] or a supplied filter returns false for it; min and max
\* themselves are enabled when no filter is supplied.
C4_DisabledIffOutOfBoundsOrFiltered ==
  /\ \A d \in CheckedDates :
       LET outOfBounds == compareDates(d, min) < 0 \/ compareDates(d, max) > 0
           rejected == props.filter # NoFilter /\ ~applyFilter(props.filter, d)
       IN /\ isDayDisabled(d) <=> (outOfBounds \/ rejected)
          /\ isMonthDisabled(d) <=> (outOfBounds \/ rejected)
          /\ isYearDisabled(d) <=> (outOfBounds \/ rejected)
  /\ props.filter = NoFilter =>
       /\ ~isDayDisabled(min) /\ ~isMonthDisabled(min) /\ ~isYearDisabled(min)
       /\ ~isDayDisabled(max) /\ ~isMonthDisabled(max) /\ ~isYearDisabled(max)

\* The day view shows an out-of-bounds day, an in-bounds day the filter
\* rejects and an in-bounds day the filter accepts.
C4_Witness ==
  /\ viewMode = DATE
  /\ props.filter # NoFilter
  /\ \E d \in renderedDayCells : compareDates(d, min) < 0 /\ isDayDisabled(d)
  /\ \E d \in renderedDayCells :
       compareDates(d, min) >= 0 /\ compareDates(d, max) <= 0
         /\ ~applyFilter(props.filter, d) /\ isDayDisabled(d)
  /\ \E d \in renderedDayCells : ~isDayDisabled(d)

\* C5: in year view the active pager index is an index of the year pager's
\* page list whenever the visible year lies between year(min) and year(max).
C5_YearPagerIndexValid ==
  (viewMode = YEAR /\ getYear(visibleDate) \in getYear(min)..getYear(max)) =>
    visibleYearPickerIndex \in 0..(Len(createYearPickerPagerData) - 1)

\* C6: a title press moves the view mode Day -> Month -> Year -> Day and
\* leaves the visible date unchanged; three presses return to the start.
C6_TitleCycles ==
  [][ lastOp' = "title" =>
        /\ viewMode = DATE => viewMode' = MONTH
        /\ viewMode = MONTH => viewMode' = YEAR
        /\ viewMode = YEAR => viewMode' = DATE
        /\ visibleDate' = visibleDate
        /\ navigationNext(navigationNext(viewMode')) = viewMode ]_vars

\* The title was pressed and the calendar wrapped round to the day view.
C6_Witness == lastOp = "title" /\ viewMode = DATE

C7_DayPager ==
  viewMode = DATE =>
    /\ visibleDayPickerIndex = visibleDate.month
    /\ createDayPickerPagerData(visibleDate)
         = [i \in 1..12 |-> Date(visibleDate.year, i - 1, 1)]

\* C7: in day view the active pager index is the month of the visible date,
\* the pager holds the 12 months of the visible year in order, and after the
\* pager reports page i the visible date is the first day of month i of the
\* same year.
C7_DayPagerIndexIsMonth ==
  /\ []C7_DayPager
  /\ [][ lastOp' = "dayPage" =>
           /\ visibleDate' = Date(visibleDate.year, pressed'.index, 1)
           /\ visibleDayPickerIndex' = pressed'.index ]_vars

\* The pager reported a page other than the one shown before, away from
\* January, and the day view now shows it.
C7_Witness ==
  /\ lastOp = "dayPage"
  /\ viewMode = DATE
  /\ pressed.index = 7
  /\ visibleDate = Date(today.year, 7, 1)

\* The dates grids are built for: the visible date and the year pager pages.
GridDates == {visibleDate} \cup Range(createYearPickerPagerData)

\* C8: the month grid is 3 rows of 4 holding January..December of the date's
\* year in order; the year grid is 3 rows of 4 holding 12 consecutive years
\* starting at the date's year.
C8_GridsAreThreeRowsOfFour ==
  \A d \in GridDates :
    /\ createMonthPickerData(d)
         = [r \in 1..3 |-> [c \in 1..4 |-> Date(d.year, 4 * (r - 1) + (c - 1), 1)]]
    /\ createYearPickerData(d)
         = [r \in 1..3 |-> [c \in 1..4 |-> Date(d.year + 4 * (r - 1) + (c - 1), 0, 1)]]

\* Grids are built for a visible date that is neither in January nor on the
\* first of a month.
C8_Witness ==
  /\ viewMode = MONTH
  /\ visibleDate.month > 0
  /\ visibleDate.date > 1
  /\ Len(createMonthPickerData(visibleDate)) = 3

\* C9: page i is in viewport exactly when |i - current| <= 1, current being
\* the month of the visible date in day view and
\* floor((year(visibleDate) - year(min)) / 12) in year view, which is also
\* the index handed to the pager as its selected index.
C9_ViewportIsCurrentPlusMinusOne ==
  /\ \A i \in (0 - 2)..13 :
       isDayPickerInViewPort(i) <=>
         (visibleDate.month - 1 <= i /\ i <= visibleDate.month + 1)
  /\ \A i \in (0 - 4)..(MaxYearPages + 4) :
       LET current == (visibleDate.year - min.year) \div 12
       IN /\ isYearPickerInViewPort(i) <=> (current - 1 <= i /\ i <= current + 1)
          /\ visibleYearPickerIndex = current
  /\ visibleDayPickerIndex = visibleDate.month

\* The year view shows a page other than the first one.
C9_Witness ==
  /\ viewMode = YEAR
  /\ visibleYearPickerIndex = 1
  /\ isYearPickerInViewPort(0) /\ isYearPickerInViewPort(2)
  /\ ~isYearPickerInViewPort(3)

\* C10: after an enabled month cell for month M is selected, the visible
\* date lies in month M of the year the visible date had before.
C10_MonthSelectShowsThatMonth ==
  [][ (viewMode = MONTH /\ acceptedPress("monthCell")') =>
        /\ visibleDate'.month = pressed'.date.month
        /\ visibleDate'.year = visibleDate.year ]_vars

\* C11: after the year pager reports page i the handler has completed
\* without error, the visible date is the start of year(min) + 12 * i, and the
\* active year-page index recomputed from it is i, with the min prop
\* supplied or omitted.
C11_YearPagerRoundTrip ==
  lastOp = "yearPage" =>
    /\ ~threw
    /\ visibleDate = Date(min.year + 12 * pressed.index, 0, 1)
    /\ visibleYearPickerIndex = pressed.index

\* Some day of the month of the cell lies within [min, max].
monthMeetsBounds(cell) ==
  LET last == Date(cell.year, cell.month,
                   getNumberOfDaysInMonth(cell.year, cell.month))
  IN compareDates(last, min) >= 0 /\ compareDates(Date(cell.year, cell.month, 1), max) <= 0

\* Some day of the year of the cell lies within [min, max].
yearMeetsBounds(cell) ==
  compareDates(Date(cell.year, 11, 31), min) >= 0
    /\ compareDates(Date(cell.year, 0, 1), max) <= 0

\* C12: with no filter supplied, a month cell (year cell) is disabled only if
\* no day of its month (year) lies within [min, max].
C12_CellDisabledOnlyIfWhollyOutOfBounds ==
  props.filter = NoFilter =>
    /\ viewMode = MONTH =>
         \A cell \in renderedMonthCells : isMonthDisabled(cell) => ~monthMeetsBounds(cell)
    /\ viewMode = YEAR =>
         \A cell \in renderedYearCells : isYearDisabled(cell) => ~yearMeetsBounds(cell)

====
